---- MODULE Spec2Model ----
(***************************************************************************)
(* Model of pymusical.converter.MusicConverter (src/pymusical/converter.py) *)
(*                                                                         *)
(* Units.  Python floats are modelled by scaled integers:                  *)
(*   note values   in hundredths of a half tone (cent):   A4 +30  ->  30   *)
(*   frequencies   in hundredths of a Hertz:              440Hz   -> 44000 *)
(*   amplitudes    in thousandths:                        0.5     -> 500   *)
(*   gains         in tenths of a dB:                     -10dB   -> -100  *)
(* Texts are sequences of one-character strings.                           *)
(***************************************************************************)
EXTENDS Integers, Sequences, FiniteSets, TLC

\* the five fields of the converter; last: the last call and how it ended;
\* input: the argument a single-call specification passes (None otherwise)
VARIABLES note_value, base_freq, amplitude, key, clef, last, input

vars == <<note_value, base_freq, amplitude, key, clef, last, input>>

fields == <<note_value, base_freq, amplitude, key, clef>>

(***************************************************************************)
(* Bounds of the model                                                     *)
(***************************************************************************)
\* head positions offered to the notation setter: -MaxHead .. MaxHead
MaxHead == 50

(***************************************************************************)
(* Python helpers                                                          *)
(***************************************************************************)
\* seq[i] with Python's 0-based index and negative indices counted from the end
PyIndex(seq, i) == IF i < 0 THEN seq[Len(seq) + i + 1] ELSE seq[i + 1]

\* round() of a float given in hundredths: nearest integer, ties to even
Round(h) ==
    LET q == h \div 100
        r == h % 100
    IN  IF r < 50 THEN q
        ELSE IF r > 50 THEN q + 1
        ELSE IF q % 2 = 0 THEN q ELSE q + 1

\* ceil(a / 12) for an integer a
Ceil12(a) == -((-a) \div 12)

\* list.index(x): 0-based position of the first occurrence, -1 for ValueError
ListIndex(seq, x) ==
    IF \E i \in 1..Len(seq) : seq[i] = x
    THEN (CHOOSE i \in 1..Len(seq) : seq[i] = x /\ \A j \in 1..(i-1) : seq[j] # x) - 1
    ELSE -1

(***************************************************************************)
(* Key and clef tables                                                     *)
(***************************************************************************)
KeyNames == {"C/a", "F/d", "Bb/g", "Eb/c", "Ab/f", "Db/bb", "C#/a#", "F#/d#",
             "Gb/eb", "B/g#", "Cb/ab", "E/c#", "A/f#", "D/b", "G/e"}

\* MusicConverter.keys: name -> <<ordinal, 12-slot accidental pattern>>
keys ==
    [k \in KeyNames |->
       CASE k = "C/a"   -> <<0,  <<"_"," ","_"," ","_","_"," ","_"," ","_"," ","_">> >>
         [] k = "F/d"   -> <<1,  <<"_"," ","_"," ","_","_"," ","_"," ","_","b"," ">> >>
         [] k = "Bb/g"  -> <<2,  <<"_"," ","_","b"," ","_"," ","_"," ","_","b"," ">> >>
         [] k = "Eb/c"  -> <<3,  <<"_"," ","_","b"," ","_"," ","_","b"," ","b"," ">> >>
         [] k = "Ab/f"  -> <<4,  <<"_","b"," ","b"," ","_"," ","_","b"," ","b"," ">> >>
         [] k = "Db/bb" -> <<5,  <<"_","b"," ","b"," ","_","b"," ","b"," ","b"," ">> >>
         [] k = "C#/a#" -> <<5,  <<"#","#"," ","#"," ","#","#"," ","#"," ","#"," ">> >>
         [] k = "F#/d#" -> <<6,  <<" ","#"," ","#"," ","#","#"," ","#"," ","#","_">> >>
         [] k = "Gb/eb" -> <<6,  <<" ","b"," ","b","b","_","b"," ","b"," ","b"," ">> >>
         [] k = "B/g#"  -> <<7,  <<" ","#"," ","#","_"," ","#"," ","#"," ","#","_">> >>
         [] k = "Cb/ab" -> <<7,  <<" ","b"," ","b","b"," ","b"," ","b"," ","b","b">> >>
         [] k = "E/c#"  -> <<8,  <<" ","#"," ","#","_"," ","#"," ","#","_"," ","_">> >>
         [] k = "A/f#"  -> <<9,  <<" ","#","_"," ","_"," ","#"," ","#","_"," ","_">> >>
         [] k = "D/b"   -> <<10, <<" ","#","_"," ","_"," ","#","_"," ","_"," ","_">> >>
         [] k = "G/e"   -> <<11, <<"_"," ","_"," ","_"," ","#","_"," ","_"," ","_">> >>]

ClefNames == {"violin", "alto", "bass"}

\* MusicConverter.clefs: name -> head position offset
clefs == [c \in ClefNames |-> CASE c = "violin" -> -6 [] c = "alto" -> 0 [] c = "bass" -> 6]

\* the accidentals the notation setter knows
signs == {"##", "#", "n", "_", "b", "bb"}

\* basic (C/a) note values of the seven staff letters C D E F G A B
BaseValues == <<-9, -7, -5, -4, -2, 0, 2>>

\* keys[key][1].replace(' ', ''): the implied accidental of each staff letter
KeyAccidentals(k) == SelectSeq(keys[k][2], LAMBDA c : c # " ")

\* key_offset after key_offset.append(key_offset[0]): eight entries
KeyOffset(k) ==
    LET ka  == KeyAccidentals(k)
        off == [i \in 1..7 |-> IF ka[i] = "#" THEN 1 ELSE IF ka[i] = "b" THEN -1 ELSE 0]
    IN  Append(off, off[1])

\* values = [values[i] + key_offset[i] for i in range(7)]
KeyValues(k) == [i \in 1..7 |-> BaseValues[i] + KeyOffset(k)[i]]

\* the signed-offset-to-symbol table of the notation getter
AccSymbol(d) ==
    CASE d = -2 -> "bb" [] d = -1 -> "b" [] d = 0 -> "n" [] d = 1 -> "#" [] d = 2 -> "##"

(***************************************************************************)
(* The converter object: self = [note_value, base_freq, amplitude, key,    *)
(* clef].  A setter maps self and its input to                             *)
(*   [exc, msg, self]: the exception raised ("none" on success), what the  *)
(* message is about, and the object afterwards.                            *)
(***************************************************************************)
Self == [note_value |-> note_value, base_freq |-> base_freq,
         amplitude |-> amplitude, key |-> key, clef |-> clef]

Done(s) == [exc |-> "none", msg |-> "", self |-> s]

Raise(e, m, s) == [exc |-> e, msg |-> m, self |-> s]

\* inputs: a Python value is a record tagged with its type.  val is the
\* number (in the unit of the property), text the characters of a str, and
\* val, acc, len the head position, accidental and length of a tuple or list
Value(ty, v, t, a, n) == [type |-> ty, val |-> v, text |-> t, acc |-> a, len |-> n]

\* an int or float
Num(n) == Value("num", n, <<>>, "", 0)

\* a str
Str(t) == Value("str", 0, t, "", 0)

\* an int where the code tells it from a float (a head position)
PyInt(n) == Value("int", n, <<>>, "", 0)

\* a tuple (p, a) and a one-element tuple (p,)
Tuple(p, a) == Value("tuple", p, <<>>, a, 2)

Tuple1(p) == Value("tuple", p, <<>>, "", 1)

\* a list [p, a] and a one-element list [p]
List(p, a) == Value("list", p, <<>>, a, 2)

List1(p) == Value("list", p, <<>>, "", 1)

None == Value("NoneType", 0, <<>>, "", 0)

(***************************************************************************)
(* note_value setter, numeric path                                         *)
(***************************************************************************)
\* variant: the value is stored before it is checked
note_value_set_num_StoreFirst(s, v) ==
    IF -5800 <= v /\ v <= 6600
    THEN Done([s EXCEPT !.note_value = v])
    ELSE Raise("MusicConverterError", "range", [s EXCEPT !.note_value = v])

\* variant: the limits themselves are outside the range
note_value_set_num_Strict(s, v) ==
    IF -5800 < v /\ v < 6600
    THEN Done([s EXCEPT !.note_value = v])
    ELSE Raise("MusicConverterError", "range", s)

\* if -58. <= new_val <= 66.: store, else MusicConverterError
note_value_set_num(s, v) ==
    IF -5800 <= v /\ v <= 6600
    THEN Done([s EXCEPT !.note_value = v])
    ELSE Raise("MusicConverterError", "range", s)

(***************************************************************************)
(* octave and notation getters                                             *)
(***************************************************************************)
\* int(ceil((round(self.note_value) - 2) / 12) + 4)
octave_get(s) == Ceil12(Round(s.note_value) - 2) + 4

\* variant: without the shift into the next octave at the wrapped 7th step
notation_get_NoShift(s) ==
    LET head_offset == (octave_get(s) - 4) * 7 + clefs[s.clef]
        key_offset  == KeyOffset(s.key)
        values      == Append(KeyValues(s.key), KeyValues(s.key)[1] + 12)
        nidx        == ((Round(s.note_value) + 9) % 12) - 9
        shift       == FALSE
        nidx2       == IF shift THEN nidx + 12 ELSE nidx
        head2       == IF shift THEN head_offset - 7 ELSE head_offset
        found       == ListIndex(values, nidx2)
        \* for i in range(8): if values[i] > note_index_in_octave: break
        brk         == IF \E i \in 0..7 : values[i + 1] > nidx2
                       THEN CHOOSE i \in 0..7 : /\ values[i + 1] > nidx2
                                                /\ \A j \in 0..(i-1) : ~(values[j + 1] > nidx2)
                       ELSE 7
    IN  IF found >= 0
        THEN << <<head2 + found, "_">> >>
        ELSE << <<head2 + brk - 1, AccSymbol(PyIndex(key_offset, brk - 1) + 1)>>,
                <<head2 + brk,     AccSymbol(PyIndex(key_offset, brk) - 1)>> >>

\* the notation getter: a list of <<head position, accidental>>
notation_get(s) ==
    LET head_offset == (octave_get(s) - 4) * 7 + clefs[s.clef]
        key_offset  == KeyOffset(s.key)
        values      == Append(KeyValues(s.key), KeyValues(s.key)[1] + 12)
        nidx        == ((Round(s.note_value) + 9) % 12) - 9
        shift       == nidx = values[7] - 12
        nidx2       == IF shift THEN nidx + 12 ELSE nidx
        head2       == IF shift THEN head_offset - 7 ELSE head_offset
        found       == ListIndex(values, nidx2)
        \* for i in range(8): if values[i] > note_index_in_octave: break
        brk         == IF \E i \in 0..7 : values[i + 1] > nidx2
                       THEN CHOOSE i \in 0..7 : /\ values[i + 1] > nidx2
                                                /\ \A j \in 0..(i-1) : ~(values[j + 1] > nidx2)
                       ELSE 7
    IN  IF found >= 0
        THEN << <<head2 + found, "_">> >>
        ELSE << <<head2 + brk - 1, AccSymbol(PyIndex(key_offset, brk - 1) + 1)>>,
                <<head2 + brk,     AccSymbol(PyIndex(key_offset, brk) - 1)>> >>

(***************************************************************************)
(* notation setter, calculation part (converter.py 498-537)                *)
(***************************************************************************)
\* variant: a natural cancels in the wrong direction, and a double sharp is
\* taken on any letter
AccOffset_Swapped(acc, vorzeichen) ==
    IF acc = "_" THEN 0
    ELSE IF acc = "n" /\ vorzeichen \in {"b", "#"}
         THEN (IF vorzeichen = "b" THEN -1 ELSE 1)
    ELSE IF acc \in {"b", "#"} /\ vorzeichen = "_"
         THEN (IF acc = "b" THEN -1 ELSE 1)
    ELSE IF acc = "bb" /\ vorzeichen = "b" THEN -1
    ELSE IF acc = "##" THEN 1
    ELSE 99

\* the offset of a requested accidental on an implied one; 99 = not applicable
AccOffset(acc, vorzeichen) ==
    IF acc = "_" THEN 0
    ELSE IF acc = "n" /\ vorzeichen \in {"b", "#"}
         THEN (IF vorzeichen = "b" THEN 1 ELSE -1)
    ELSE IF acc \in {"b", "#"} /\ vorzeichen = "_"
         THEN (IF acc = "b" THEN -1 ELSE 1)
    ELSE IF acc = "bb" /\ vorzeichen = "b" THEN -1
    ELSE IF acc = "##" /\ vorzeichen = "#" THEN 1
    ELSE 99

\* variant: the basic (C/a) values, whatever the key
HeadNoteValue_Basic(s, head_position) ==
    LET base_pos == head_position - clefs[s.clef]
        oct      == base_pos \div 7 + 4
        hidx     == base_pos % 7
    IN  BaseValues[hidx + 1] + (oct - 4) * 12

\* head_note_value of a head position under key and clef of s
HeadNoteValue(s, head_position) ==
    LET base_pos == head_position - clefs[s.clef]
        oct      == base_pos \div 7 + 4
        hidx     == base_pos % 7
    IN  KeyValues(s.key)[hidx + 1] + (oct - 4) * 12

Vorzeichen(s, head_position) ==
    KeyAccidentals(s.key)[((head_position - clefs[s.clef]) % 7) + 1]

notation_calc(s, head_position, acc) ==
    LET off == AccOffset(acc, Vorzeichen(s, head_position))
    IN  IF off = 99
        THEN Raise("MusicConverterError", "combination", s)
        ELSE note_value_set_num(s, (HeadNoteValue(s, head_position) + off) * 100)

(***************************************************************************)
(* Texts and the pyparsing primitives (converter.py 22-60)                 *)
(***************************************************************************)
Digits == {"0", "1", "2", "3", "4", "5", "6", "7", "8", "9"}

DigitVal(c) ==
    CASE c = "0" -> 0 [] c = "1" -> 1 [] c = "2" -> 2 [] c = "3" -> 3 [] c = "4" -> 4
      [] c = "5" -> 5 [] c = "6" -> 6 [] c = "7" -> 7 [] c = "8" -> 8 [] c = "9" -> 9

\* the character at position i (1-based); "" at and after the end of the text
At(t, i) == IF i >= 1 /\ i <= Len(t) THEN t[i] ELSE ""

\* pp.White() matches at position i
IsWhite(t, i) == At(t, i) = " "

\* pyparsing skips leading whitespace in front of a token
SkipWhite(t, i) ==
    CHOOSE j \in i..(Len(t) + 1) :
        /\ ~IsWhite(t, j)
        /\ \A m \in i..(j - 1) : IsWhite(t, m)

\* t[i .. i+Len(w)-1] = w
HasText(t, i, w) == \A m \in 1..Len(w) : At(t, i + m - 1) = w[m]

\* a parse result: ok, the position after the match, the token value
Match(l, v) == [ok |-> TRUE, loc |-> l, val |-> v]

NoMatch == [ok |-> FALSE, loc |-> 0, val |-> 0]

\* pp.Word(pp.nums) without whitespace skipping: the end of the digit run at i
DigitsEnd(t, i) ==
    CHOOSE j \in i..(Len(t) + 1) :
        /\ At(t, j) \notin Digits
        /\ \A m \in i..(j - 1) : At(t, m) \in Digits

\* int() of the digits t[i .. j-1]
RECURSIVE DigitsValue(_, _, _)
DigitsValue(t, i, j) ==
    IF j <= i THEN 0 ELSE DigitsValue(t, i, j - 1) * 10 + DigitVal(t[j - 1])

\* real: digits, optionally ',' or '.' and digits; the value in hundredths
\* (a third and later decimal place is below the resolution of the model)
real(t, i0) ==
    LET i  == SkipWhite(t, i0)
        j  == DigitsEnd(t, i)
        k  == DigitsEnd(t, j + 1)
        fr == At(t, j) \in {",", "."} /\ k > j + 1
        f1 == IF fr THEN DigitVal(t[j + 1]) ELSE 0
        f2 == IF fr /\ k > j + 2 THEN DigitVal(t[j + 2]) ELSE 0
    IN  IF j = i THEN NoMatch
        ELSE Match(IF fr THEN k ELSE j, DigitsValue(t, i, j) * 100 + f1 * 10 + f2)

\* integer: optional '-' and digits
integer(t, i0) ==
    LET i   == SkipWhite(t, i0)
        neg == At(t, i) = "-"
        d   == SkipWhite(t, IF neg THEN i + 1 ELSE i)
        j   == DigitsEnd(t, d)
    IN  IF j = d THEN NoMatch
        ELSE Match(j, IF neg THEN -DigitsValue(t, d, j) ELSE DigitsValue(t, d, j))

\* must_sign: '+' or '-', as +1 or -1
must_sign(t, i0) ==
    LET i == SkipWhite(t, i0)
    IN  IF At(t, i) = "+" THEN Match(i + 1, 1)
        ELSE IF At(t, i) = "-" THEN Match(i + 1, -1)
        ELSE NoMatch

\* may_sign: an optional sign, +1 when absent
may_sign(t, i0) ==
    LET m == must_sign(t, i0)
    IN  IF m.ok THEN m ELSE Match(i0, 1)

\* pp.StringEnd() after optional whitespace
StringEnd(t, i) == SkipWhite(t, i) = Len(t) + 1

\* the tokens of cent: the sign sg and the real r that follows it
cent_tokens(t, sg, r) ==
    IF sg.ok /\ ~IsWhite(t, sg.loc) /\ r.ok /\ StringEnd(t, r.loc)
    THEN Match(Len(t) + 1, sg.val * (r.val \div 100))
    ELSE NoMatch

cent_sign(t, sg) == cent_tokens(t, sg, real(t, sg.loc))

\* variant: the sign of the cents is optional
cent_MaySign(t, i0) == cent_sign(t, may_sign(t, i0))

\* cent: sign, no whitespace, real, end of text; in hundredths of a half tone
cent(t, i0) == cent_sign(t, must_sign(t, i0))

note_name_offset(c) ==
    CASE c = "C" -> -9 [] c = "D" -> -7 [] c = "E" -> -5 [] c = "F" -> -4
      [] c = "G" -> -2 [] c = "A" -> 0 [] c = "B" -> 2

\* str.upper() of a note letter
Upper(c) ==
    CASE c = "c" -> "C" [] c = "d" -> "D" [] c = "e" -> "E" [] c = "f" -> "F"
      [] c = "g" -> "G" [] c = "a" -> "A" [] c = "b" -> "B" [] OTHER -> c

NoteLetters == {"C", "D", "E", "F", "G", "A", "B", "c", "d", "e", "f", "g", "a", "b"}

\* full_note: letter, optional '#' or 'b', octave digit, nothing white between
full_note(t, i0) ==
    LET i   == SkipWhite(t, i0)
        acc == IF At(t, i + 1) = "#" THEN 1 ELSE IF At(t, i + 1) = "b" THEN -1 ELSE 0
        o   == IF acc = 0 THEN i + 1 ELSE i + 2
    IN  IF /\ At(t, i) \in NoteLetters
           /\ ~IsWhite(t, i + 1)
           /\ ~IsWhite(t, o)
           /\ At(t, o) \in Digits
        THEN Match(o + 1, note_name_offset(Upper(t[i])) + acc + (DigitVal(t[o]) - 4) * 12)
        ELSE NoMatch

(***************************************************************************)
(* note_parser and note_parser_action (converter.py 62-80)                 *)
(* result: [status, val], status one of ok, ParseException, ValueError;    *)
(* val in hundredths of a half tone                                        *)
(***************************************************************************)
Parsed(v) == [status |-> "ok", val |-> v]

ParseFail == [status |-> "ParseException", val |-> 0]

ParseValueError == [status |-> "ValueError", val |-> 0]

\* variant: the second note of a pair is not popped before the sum
note_parser_action_NoPop(paired, first, second, cents) ==
    IF paired
    THEN IF first # second THEN ParseValueError ELSE Parsed((first + second) * 100 + cents)
    ELSE Parsed(second * 100 + cents)

\* if len(t) > 1 and isinstance(t[1], int): the two notes must match
note_parser_action(paired, first, second, cents) ==
    IF paired
    THEN IF first # second THEN ParseValueError ELSE Parsed(first * 100 + cents)
    ELSE Parsed(second * 100 + cents)

\* StringEnd ^ cent after the last full note f2
note_parser_end(t, paired, f1, f2, c) ==
    IF ~f2.ok THEN ParseFail
    ELSE IF StringEnd(t, f2.loc) THEN note_parser_action(paired, f1.val, f2.val, 0)
    ELSE IF c.ok THEN note_parser_action(paired, f1.val, f2.val, c.val)
    ELSE ParseFail

\* f2: the last full note, the second of a pair or the only one
note_parser_last(t, paired, f1, f2) == note_parser_end(t, paired, f1, f2, cent(t, f2.loc))

\* Optional(full_note + '/' + lookahead for a full note): n is the full
\* note after a '/' that follows the first full note f1
note_parser_pair(t, f1, n) ==
    note_parser_last(t, n.ok, f1, IF n.ok THEN n ELSE f1)

note_parser_first(t, f1) ==
    note_parser_pair(t, f1,
                     IF f1.ok /\ At(t, f1.loc) = "/" /\ ~IsWhite(t, f1.loc + 1)
                     THEN full_note(t, f1.loc + 1)
                     ELSE NoMatch)

note_parser(t) == note_parser_first(t, full_note(t, 1))


(***************************************************************************)
(* math: log10 and ** on the scaled integers                               *)
(***************************************************************************)
\* 1600 * 2 ** (r / 12) for r = 0 .. 12: one octave of half tones above 16 Hz
HalfToneGrid == <<1600, 1695, 1796, 1903, 2016, 2136, 2263, 2397, 2540, 2691, 2851, 3020, 3200>>

RECURSIVE Pow(_, _)
Pow(b, n) == IF n <= 0 THEN 1 ELSE b * Pow(b, n - 1)

\* 1200 * log2(f / 16 Hz) + 4800 for a frequency f >= 16 Hz in hundredths of
\* a Hertz: the octave, the half tone in it, and the cents by interpolation
LogCents(f) ==
    LET o == CHOOSE n \in 0..11 : 1600 * Pow(2, n) <= f /\ f < 1600 * Pow(2, n + 1)
        m == f \div Pow(2, o)
        r == CHOOSE n \in 0..11 : HalfToneGrid[n + 1] <= m /\ m < HalfToneGrid[n + 2]
    IN  4800 + 1200 * o + 100 * r
          + (100 * (m - HalfToneGrid[r + 1])) \div (HalfToneGrid[r + 2] - HalfToneGrid[r + 1])

\* log10(new_freq / base) / log10(root), in hundredths of a half tone
NoteOfFreq(f, base) == LogCents(f) - LogCents(base)

\* 1000 * root ** -r for r = 0 .. 11
RootNeg == <<1000, 944, 891, 841, 794, 749, 707, 667, 630, 595, 561, 530>>

\* f * root ** -n for a whole number n of half tones
FreqTimesRootNeg(f, n) ==
    LET r == n % 12
        o == n \div 12
        g == (f * RootNeg[r + 1]) \div 1000
    IN  IF o >= 0 THEN g \div Pow(2, o) ELSE g * Pow(2, -o)

\* 1000 * 10 ** (k / 10) for k = 0 .. 10: one decade of amplitude in 2 dB steps
DecadeGrid == <<1000, 1259, 1585, 1995, 2512, 3162, 3981, 5012, 6310, 7943, 10000>>

\* 10. ** (gain / 20.) in thousandths, for a gain g in tenths of a dB
AmpOfGain(g) ==
    LET a == g \div 200
        b == g % 200
        k == b \div 20
        p == DecadeGrid[k + 1] + ((DecadeGrid[k + 2] - DecadeGrid[k + 1]) * (b % 20)) \div 20
    IN  IF a >= 0 THEN p * Pow(10, a)
        ELSE IF a <= -4 THEN 0
        ELSE p \div Pow(10, -a)

\* base * root ** (v / 100) for a note value v in hundredths of a half tone
FreqOfNote(base, v) ==
    LET o == v \div 1200
        r == (v % 1200) \div 100
        c == v % 100
        g == HalfToneGrid[r + 1] + ((HalfToneGrid[r + 2] - HalfToneGrid[r + 1]) * c) \div 100
        f == (base * g) \div 1600
    IN  IF o >= 0 THEN f * Pow(2, o) ELSE f \div Pow(2, -o)

(***************************************************************************)
(* the other parsers (converter.py 82-167)                                 *)
(***************************************************************************)
\* the literal w after optional whitespace: the position after it, 0 if absent
Literal(t, i0, w) ==
    LET i == SkipWhite(t, i0)
    IN  IF HasText(t, i, w) THEN i + Len(w) ELSE 0

\* hertz_parser: real + 'Hz'; the frequency in hundredths of a Hertz
\* the unit of hertz_at: e is the position after 'Hz', 0 if absent
hertz_unit(r, e) == IF r.ok /\ e > 0 THEN Match(e, r.val) ELSE NoMatch

hertz_real(t, r) == hertz_unit(r, Literal(t, r.loc, <<"H", "z">>))

hertz_at(t, i0) == hertz_real(t, real(t, i0))

\* the token of a parser that matched, as the result of parseString
AsParsed(m) == IF m.ok THEN Parsed(m.val) ELSE ParseFail

hertz_parser(t) == AsParsed(hertz_at(t, 1))

\* the tokens of base_parser: the full note f, the position eq after '=' (0
\* if absent) and the frequency h that follows
base_parser_tokens(f, eq, h) ==
    IF f.ok /\ eq > 0 /\ h.ok
    THEN Parsed(FreqTimesRootNeg(h.val, f.val))
    ELSE ParseFail

base_parser_equals(t, f, eq) == base_parser_tokens(f, eq, hertz_at(t, eq))

base_parser_note(t, f) == base_parser_equals(t, f, Literal(t, f.loc, <<"=">>))

\* base_parser: full_note '=' hertz; the base frequency t[1] * root ** -t[0]
base_parser(t) == base_parser_note(t, full_note(t, 1))

\* a ^ b of two parsers of which at most one matches
Or(a, b) == IF a.status = "ok" THEN a ELSE b

\* base_parser ^ hertz_parser
base_or_hertz_parser(t) == Or(base_parser(t), hertz_parser(t))

amp_parser_real(t, r) ==
    IF r.ok /\ Literal(t, r.loc, <<"%">>) > 0 THEN Parsed(r.val \div 10) ELSE ParseFail

\* amp_parser: real + '%'; the amplitude t[0] / 100 in thousandths
amp_parser(t) == amp_parser_real(t, real(t, 1))

\* the tokens of gain_parser: the sign sg and the real r that follows it
gain_parser_tokens(t, sg, r) ==
    IF /\ ~IsWhite(t, sg.loc)
       /\ r.ok
       /\ ~IsWhite(t, r.loc)
       /\ HasText(t, r.loc, <<"d", "B">>)
    THEN Parsed(AmpOfGain(sg.val * (r.val \div 10)))
    ELSE ParseFail

gain_parser_sign(t, sg) == gain_parser_tokens(t, sg, real(t, sg.loc))

\* gain_parser: optional sign, real, 'dB', nothing white between; the
\* amplitude 10 ** (sign * real / 20) in thousandths
gain_parser(t) == gain_parser_sign(t, may_sign(t, 1))

\* the characters of an identifier for pp.Keyword: alphanumerics, '_' and '$'
IdentChars ==
    Digits \cup {"_", "$"} \cup
    {"a", "b", "c", "d", "e", "f", "g", "h", "i", "j", "k", "l", "m", "n", "o", "p", "q",
     "r", "s", "t", "u", "v", "w", "x", "y", "z", "A", "B", "C", "D", "E", "F", "G", "H",
     "I", "J", "K", "L", "M", "N", "O", "P", "Q", "R", "S", "T", "U", "V", "W", "X", "Y", "Z"}

\* pp.Keyword(w): the text w, not inside a longer identifier
Keyword(t, i0, w) ==
    LET i == SkipWhite(t, i0)
    IN  IF /\ HasText(t, i, w)
           /\ At(t, i + Len(w)) \notin IdentChars
           /\ At(t, i - 1) \notin IdentChars
        THEN i + Len(w) ELSE 0

\* the accidental keywords in the order score_parser tries them
ScoreSigns == << <<"#", "#">>, <<"b", "b">>, <<"_">>, <<"#">>, <<"b">>, <<"n">> >>

SignName(w) == IF Len(w) = 2 THEN (IF w[1] = "#" THEN "##" ELSE "bb") ELSE w[1]

\* the tokens of score_parser: the position sc after 'sc', the integer n,
\* the position col after ':' (0 if absent) and the accidentals hit at col
score_parser_tokens(t, sc, n, col, hit) ==
    IF sc > 0 /\ n.ok /\ col > 0 /\ hit # {}
    THEN [status |-> "ok", val |-> n.val,
          acc |-> SignName(ScoreSigns[CHOOSE m \in hit : \A m2 \in hit : m <= m2]),
          len |-> 2]
    ELSE IF sc > 0 /\ n.ok /\ StringEnd(t, n.loc)
    THEN [status |-> "ok", val |-> n.val, acc |-> "", len |-> 1]
    ELSE [status |-> "ParseException", val |-> 0, acc |-> "", len |-> 0]

score_parser_colon(t, sc, n, col) ==
    score_parser_tokens(t, sc, n, col, {m \in 1..6 : Keyword(t, col, ScoreSigns[m]) > 0})

score_parser_integer(t, sc, n) == score_parser_colon(t, sc, n, Literal(t, n.loc, <<":">>))

score_parser_sc(t, sc) == score_parser_integer(t, sc, integer(t, sc))

\* score_parser: 'sc' integer ':' accidental | 'sc' integer end-of-line;
\* result [status, val, acc, len]: the tokens
score_parser(t) == score_parser_sc(t, Keyword(t, 1, <<"s", "c">>))


(***************************************************************************)
(* the numeric getters                                                     *)
(***************************************************************************)
note_value_get(s) == s.note_value

base_freq_get(s) == s.base_freq

\* self.base_freq * (self.__root__ ** self.__note_value__)
frequency_get(s) == FreqOfNote(base_freq_get(s), s.note_value)

amplitude_get(s) == s.amplitude

(***************************************************************************)
(* the setters (converter.py 193-569)                                      *)
(***************************************************************************)
\* the text path of the note_value setter: p is what note_parser made of it
note_value_set_str(s, p) ==
    IF p.status = "ParseException" THEN Raise("MusicConverterError", "parse", s)
    ELSE IF p.status = "ValueError" THEN Raise("ValueError", "match", s)
    ELSE note_value_set_num(s, p.val)

note_value_set(s, x) ==
    IF x.type = "str" THEN note_value_set_str(s, note_parser(x.text))
    ELSE IF x.type = "num" THEN note_value_set_num(s, x.val)
    ELSE Raise("TypeError", "type", s)

\* variant: the accepted frequency also becomes the base frequency
frequency_set_num_MovesBase(s, f) ==
    IF 1600 <= f /\ f <= 2000000
    THEN Done([s EXCEPT !.note_value = NoteOfFreq(f, s.base_freq), !.base_freq = f])
    ELSE Raise("MusicConverterError", "range", s)

\* if 16. <= new_freq <= 20000.: note value from the frequency
frequency_set_num(s, f) ==
    IF 1600 <= f /\ f <= 2000000
    THEN Done([s EXCEPT !.note_value = NoteOfFreq(f, s.base_freq)])
    ELSE Raise("MusicConverterError", "range", s)

\* the text path of the frequency setter: p is what hertz_parser made of it
frequency_set_str(s, p) ==
    IF p.status = "ok" THEN frequency_set_num(s, p.val)
    ELSE Raise("MusicConverterError", "parse", s)

frequency_set(s, x) ==
    IF x.type = "str" THEN frequency_set_str(s, hertz_parser(x.text))
    ELSE IF x.type = "num" THEN frequency_set_num(s, x.val)
    ELSE Raise("TypeError", "type", s)

\* converter.py 250-254: the accepted frequency is turned into a note value
base_freq_set_num(s, f) ==
    IF 1600 <= f /\ f <= 2000000
    THEN Done([s EXCEPT !.note_value = NoteOfFreq(f, s.base_freq)])
    ELSE Raise("MusicConverterError", "range", s)

\* the text path of the base_freq setter: p is what the parser made of it
base_freq_set_str(s, p) ==
    IF p.status = "ok" THEN base_freq_set_num(s, p.val)
    ELSE Raise("MusicConverterError", "parse", s)

base_freq_set(s, x) ==
    IF x.type = "str" THEN base_freq_set_str(s, base_or_hertz_parser(x.text))
    ELSE IF x.type = "num" THEN base_freq_set_num(s, x.val)
    ELSE Raise("TypeError", "type", s)

\* if 0. <= new_amp <= 1.: store
amplitude_set_num(s, a) ==
    IF 0 <= a /\ a <= 1000
    THEN Done([s EXCEPT !.amplitude = a])
    ELSE Raise("MusicConverterError", "range", s)

\* the text path of the amplitude setter: p is what amp_parser made of it
amplitude_set_str(s, p) ==
    IF p.status = "ok" THEN amplitude_set_num(s, p.val)
    ELSE Raise("MusicConverterError", "parse", s)

amplitude_set(s, x) ==
    IF x.type = "str" THEN amplitude_set_str(s, amp_parser(x.text))
    ELSE IF x.type = "num" THEN amplitude_set_num(s, x.val)
    ELSE Raise("TypeError", "type", s)

\* the text path of the gain setter: the parsed amplitude is stored as it is
gain_set_str(s, p) ==
    IF p.status = "ok" THEN Done([s EXCEPT !.amplitude = p.val])
    ELSE Raise("MusicConverterError", "parse", s)

\* text: the parsed amplitude; number: only if <= 0 dB
gain_set(s, x) ==
    IF x.type = "str" THEN gain_set_str(s, gain_parser(x.text))
    ELSE IF x.type = "num"
    THEN IF x.val <= 0 THEN Done([s EXCEPT !.amplitude = AmpOfGain(x.val)])
         ELSE Raise("MusicConverterError", "range", s)
    ELSE Raise("TypeError", "type", s)

\* the text path of the note_name setter: the parsed value is stored as it is
note_name_set_str(s, p) ==
    IF p.status = "ParseException" THEN Raise("MusicConverterError", "parse", s)
    ELSE IF p.status = "ValueError" THEN Raise("ValueError", "match", s)
    ELSE Done([s EXCEPT !.note_value = p.val])

note_name_set(s, x) ==
    IF x.type = "str" THEN note_name_set_str(s, note_parser(x.text))
    ELSE Raise("TypeError", "type", s)

\* the characters of the key names
KeyText ==
    [k \in KeyNames |->
       CASE k = "C/a"   -> <<"C", "/", "a">>
         [] k = "F/d"   -> <<"F", "/", "d">>
         [] k = "Bb/g"  -> <<"B", "b", "/", "g">>
         [] k = "Eb/c"  -> <<"E", "b", "/", "c">>
         [] k = "Ab/f"  -> <<"A", "b", "/", "f">>
         [] k = "Db/bb" -> <<"D", "b", "/", "b", "b">>
         [] k = "C#/a#" -> <<"C", "#", "/", "a", "#">>
         [] k = "F#/d#" -> <<"F", "#", "/", "d", "#">>
         [] k = "Gb/eb" -> <<"G", "b", "/", "e", "b">>
         [] k = "B/g#"  -> <<"B", "/", "g", "#">>
         [] k = "Cb/ab" -> <<"C", "b", "/", "a", "b">>
         [] k = "E/c#"  -> <<"E", "/", "c", "#">>
         [] k = "A/f#"  -> <<"A", "/", "f", "#">>
         [] k = "D/b"   -> <<"D", "/", "b">>
         [] k = "G/e"   -> <<"G", "/", "e">>]

\* the characters of the clef names
ClefText ==
    [c \in ClefNames |->
       CASE c = "violin" -> <<"v", "i", "o", "l", "i", "n">>
         [] c = "alto"   -> <<"a", "l", "t", "o">>
         [] c = "bass"   -> <<"b", "a", "s", "s">>]

\* variant: a name that is not in the table is ignored without an error
key_set_Lenient(s, x) ==
    IF x.type = "str" /\ \E k \in KeyNames : KeyText[k] = x.text
    THEN Done([s EXCEPT !.key = CHOOSE k \in KeyNames : KeyText[k] = x.text])
    ELSE Done(s)

\* if new_key in self.keys
key_set(s, x) ==
    IF x.type = "str" /\ \E k \in KeyNames : KeyText[k] = x.text
    THEN Done([s EXCEPT !.key = CHOOSE k \in KeyNames : KeyText[k] = x.text])
    ELSE Raise("MusicConverterError", "key", s)

clef_set(s, x) ==
    IF x.type = "str"
    THEN IF \E c \in ClefNames : ClefText[c] = x.text
         THEN Done([s EXCEPT !.clef = CHOOSE c \in ClefNames : ClefText[c] = x.text])
         ELSE Raise("MusicConverterError", "clef", s)
    ELSE Raise("TypeError", "type", s)

\* input verification of the notation setter (converter.py 475-496), then
\* the calculation
notation_set(s, x) ==
    LET \* a list gets '_' appended when it is short and becomes a tuple;
        \* an int becomes (int, '_')
        score == IF x.type = "list"
                 THEN IF x.len < 2 THEN Tuple(x.val, "_") ELSE Tuple(x.val, x.acc)
                 ELSE IF x.type = "int" THEN Tuple(x.val, "_")
                 ELSE x
    IN  IF x.type = "str"
        THEN \* new_score becomes the first token, an int, which is no tuple
             IF score_parser(x.text).status = "ok"
             THEN Raise("TypeError", "type", s)
             ELSE Raise("MusicConverterError", "parse", s)
        ELSE IF score.type = "tuple"
        THEN IF score.len = 2 /\ score.acc \in signs
             THEN notation_calc(s, score.val, score.acc)
             ELSE Raise("MusicConverterError", "form", s)
        ELSE Raise("TypeError", "type", s)

(***************************************************************************)
(* set(): the unified text input (converter.py 160-167, 571-586)           *)
(***************************************************************************)
\* input_parser: the alternatives start differently, so at most one matches;
\* the result names the attribute and carries its value
input_parser_alternatives(n, h, sc, b, a, g) ==
    IF n.status # "ParseException"
    THEN [status |-> n.status, attr |-> "note_value", value |-> Num(n.val)]
    ELSE IF h.status = "ok"
    THEN [status |-> "ok", attr |-> "frequency", value |-> Num(h.val)]
    ELSE IF sc.status = "ok"
    THEN [status |-> "ok", attr |-> "notation",
          value |-> IF sc.len = 2 THEN List(sc.val, sc.acc) ELSE List1(sc.val)]
    ELSE IF b.status = "ok"
    THEN [status |-> "ok", attr |-> "base_freq", value |-> Num(b.val)]
    ELSE IF a.status = "ok"
    THEN [status |-> "ok", attr |-> "amplitude", value |-> Num(a.val)]
    ELSE IF g.status = "ok"
    THEN [status |-> "ok", attr |-> "amplitude", value |-> Num(g.val)]
    ELSE [status |-> "ParseException", attr |-> "", value |-> None]

input_parser(t) ==
    input_parser_alternatives(note_parser(t), hertz_parser(t), score_parser(t),
                              base_parser(t), amp_parser(t), gain_parser(t))

\* setattr(self, attribute, value)
setattr(s, attr, v) ==
    CASE attr = "note_value" -> note_value_set(s, v)
      [] attr = "frequency"  -> frequency_set(s, v)
      [] attr = "notation"   -> notation_set(s, v)
      [] attr = "base_freq"  -> base_freq_set(s, v)
      [] attr = "amplitude"  -> amplitude_set(s, v)

\* r is what input_parser made of the text
set_str(s, r) ==
    IF r.status = "ParseException" THEN Raise("MusicConverterError", "parse", s)
    ELSE IF r.status = "ValueError" THEN Raise("ValueError", "match", s)
    ELSE setattr(s, r.attr, r.value)

set(s, x) ==
    IF x.type = "str" THEN set_str(s, input_parser(x.text))
    ELSE Raise("TypeError", "type", s)

(***************************************************************************)
(* construction (converter.py 10-16, 169-181)                              *)
(***************************************************************************)
\* variant: the base frequency starts at 432 Hz
Blank_A432 == [note_value |-> 0, base_freq |-> 43200, amplitude |-> 0, key |-> "", clef |-> ""]

\* the fields as assigned before the first setter runs; amplitude, key and
\* clef do not exist yet and are written as 0 and ""
Blank == [note_value |-> 0, base_freq |-> 44000, amplitude |-> 0, key |-> "", clef |-> ""]

\* __init__(base_freq, amplitude, new_scale, clef): the setters in the order
\* of the code; self.__clef__ = 'violin' follows the clef setter
Construct_clef(r3, amp) ==
    IF r3.exc # "none" THEN r3
    ELSE amplitude_set([r3.self EXCEPT !.clef = "violin"], amp)

Construct_key(r2, amp, new_clef) ==
    IF r2.exc # "none" THEN r2 ELSE Construct_clef(clef_set(r2.self, new_clef), amp)

Construct_base_freq(r1, amp, new_scale, new_clef) ==
    IF r1.exc # "none" THEN r1
    ELSE Construct_key(key_set(r1.self, new_scale), amp, new_clef)

Construct(bf, amp, new_scale, new_clef) ==
    Construct_base_freq(base_freq_set(Blank, bf), amp, new_scale, new_clef)

\* MusicConverter()
Default == Construct(Num(44000), Num(500), Str(KeyText["C/a"]), Str(ClefText["violin"]))

(***************************************************************************)
(* The state machine: one action per setter                                *)
(***************************************************************************)
\* the object is r.self, the result of its construction
New(r) ==
    /\ note_value = r.self.note_value
    /\ base_freq  = r.self.base_freq
    /\ amplitude  = r.self.amplitude
    /\ key        = r.self.key
    /\ clef       = r.self.clef
    /\ last       = [op |-> "__init__", exc |-> r.exc, msg |-> r.msg]

Init ==
    /\ New(Default)
    /\ input = None

\* the object becomes r.self; last records the call and how it ended
Apply(op, r) ==
    /\ note_value' = r.self.note_value
    /\ base_freq'  = r.self.base_freq
    /\ amplitude'  = r.self.amplitude
    /\ key'        = r.self.key
    /\ clef'       = r.self.clef
    /\ last'       = [op |-> op, exc |-> r.exc, msg |-> r.msg]
    /\ input'      = input

SetNoteValue(x) == Apply("note_value", note_value_set(Self, x))

SetNoteName(x) == Apply("note_name", note_name_set(Self, x))

SetFrequency(x) == Apply("frequency", frequency_set(Self, x))

SetBaseFreq(x) == Apply("base_freq", base_freq_set(Self, x))

SetAmplitude(x) == Apply("amplitude", amplitude_set(Self, x))

SetGain(x) == Apply("gain", gain_set(Self, x))

SetKey(x) == Apply("key", key_set(Self, x))

SetClef(x) == Apply("clef", clef_set(Self, x))

SetNotation(x) == Apply("notation", notation_set(Self, x))

Set(x) == Apply("set", set(Self, x))


(***************************************************************************)
(* The inputs offered to the setters                                       *)
(***************************************************************************)
\* the text of a full note: letter, accidental ("" for none), octave digit
FullNoteText(letter, acc, digit) ==
    IF acc = "" THEN <<letter, digit>> ELSE <<letter, acc, digit>>

\* "X/Y"
PairText(x, y) == x \o <<"/">> \o y

\* numbers for the note_value setter, in hundredths of a half tone
NoteNumbers == {-5800, 6601}

NoteA4Plus30 == FullNoteText("A", "", "4") \o <<" ", "+", "3", "0">>

NoteA4NoSign == FullNoteText("A", "", "4") \o <<" ", "3", "0">>

NoteDis4E4 == PairText(FullNoteText("D", "#", "4"), FullNoteText("E", "", "4"))

NoteC0Minus150 == FullNoteText("C", "", "0") \o <<" ", "-", "1", "5", "0">>

NoteB9Plus500 == FullNoteText("B", "", "9") \o <<"+", "5", "0", "0">>

NoteInputs ==
    {Num(v) : v \in NoteNumbers}
      \cup {Str(NoteDis4E4), Str(NoteA4NoSign), Str(NoteC0Minus150), None}

NoteNameInputs ==
    {Str(NoteA4Plus30), Str(NoteDis4E4), Str(NoteC0Minus150), Str(NoteB9Plus500),
     Str(NoteA4NoSign), Num(0)}

\* frequencies in hundredths of a Hertz
Text440Hz == <<"4", "4", "0", "H", "z">>

Text20000Hz == <<"2", "0", "0", "0", "0", "H", "z">>

Text440 == <<"4", "4", "0">>

FrequencyInputs ==
    {Num(1599), Num(2000000), Str(Text440Hz), Str(Text440), None}

TextA4Is432Hz == <<"A", "4", "=", "4", "3", "2", "H", "z">>

TextA5Is10Hz == <<"A", "5", "=", "1", "0", "H", "z">>

BaseFreqInputs ==
    {Num(1500), Num(43200), Str(TextA4Is432Hz), Str(TextA5Is10Hz), Str(Text440), None}

\* amplitudes in thousandths
Text150Percent == <<"1", "5", "0", "%">>

AmplitudeInputs == {Num(0), Num(1001), Str(Text150Percent), Str(Text440), None}

\* gains in tenths of a dB
TextMinus10dB == <<"-", "1", "0", "d", "B">>

TextPlus35dB == <<"+", "3", ".", "5", "d", "B">>

GainInputs == {Num(-60), Num(35), Str(TextPlus35dB), Str(Text440), None}

\* the keys offered by name to the key setter of the facade
SomeKeys == {"C/a", "D/b"}

TextHx == <<"H", "/", "x">>

KeyInputs == {Str(KeyText[k]) : k \in SomeKeys} \cup {Str(TextHx), None}

TextTenor == <<"t", "e", "n", "o", "r">>

ClefInputs == {Str(ClefText[c]) : c \in ClefNames} \cup {Str(TextTenor), None}

TextSc5Sharp == <<"s", "c", " ", "5", ":", "#">>

TextSc5 == <<"s", "c", " ", "5">>

TextSc5X == <<"s", "c", " ", "5", ":", "x">>

TextScMinus7Natural == <<"s", "c", " ", "-", "7", ":", "n">>

NotationInputs ==
    {Tuple(-7, "#"), Tuple(-7, "##"), Tuple(60, "_"), Tuple(5, "x"), Tuple1(5),
     List1(5), PyInt(-6), None, Str(TextSc5Sharp), Str(TextSc5X)}

SetInputs ==
    {Str(t) : t \in {NoteA4Plus30, NoteDis4E4, NoteC0Minus150, Text20000Hz,
                     TextA4Is432Hz, TextA5Is10Hz, Text150Percent, TextMinus10dB,
                     TextPlus35dB, TextSc5, TextScMinus7Natural,
                     KeyText["F/d"], ClefText["bass"], Text440}}
      \cup {None}

Next ==
    \/ \E x \in NoteInputs      : SetNoteValue(x)
    \/ \E x \in NoteNameInputs  : SetNoteName(x)
    \/ \E x \in FrequencyInputs : SetFrequency(x)
    \/ \E x \in BaseFreqInputs  : SetBaseFreq(x)
    \/ \E x \in AmplitudeInputs : SetAmplitude(x)
    \/ \E x \in GainInputs      : SetGain(x)
    \/ \E x \in KeyInputs       : SetKey(x)
    \/ \E x \in ClefInputs      : SetClef(x)
    \/ \E x \in NotationInputs  : SetNotation(x)
    \/ \E x \in SetInputs       : Set(x)

Spec == Init /\ [][Next]_vars


(***************************************************************************)
(* Reading the notation and assigning one of its entries back:             *)
(*     x.notation = x.notation[i]                                          *)
(* from every key, clef and whole note value                               *)
(***************************************************************************)
NoteLow == -58

NoteHigh == 66

InitRoundTrip ==
    /\ note_value \in {100 * v : v \in NoteLow..NoteHigh}
    /\ base_freq = Default.self.base_freq
    /\ amplitude = Default.self.amplitude
    /\ key \in KeyNames
    /\ clef \in ClefNames
    /\ last = [op |-> "note_value", exc |-> "none", msg |-> ""]
    /\ input = None

\* n is what the notation getter returned
AssignEntry(n, i) ==
    /\ i \in 1..Len(n)
    /\ Apply("notation", notation_set(Self, Tuple(n[i][1], n[i][2])))

NotationReadBack(i) ==
    /\ last.op = "note_value"
    /\ AssignEntry(notation_get(Self), i)

NextRoundTrip == \E i \in 1..2 : NotationReadBack(i)

SpecRoundTrip == InitRoundTrip /\ [][NextRoundTrip]_vars

(***************************************************************************)
(* One call of the notation setter with a tuple, from every key and clef   *)
(***************************************************************************)
HeadPositions == (-MaxHead)..MaxHead

InitScore ==
    /\ note_value = Default.self.note_value
    /\ base_freq = Default.self.base_freq
    /\ amplitude = Default.self.amplitude
    /\ key \in KeyNames
    /\ clef \in ClefNames
    /\ last = [op |-> "clef", exc |-> "none", msg |-> ""]
    /\ input \in {Tuple(p, a) : p \in HeadPositions, a \in signs}

CallNotation ==
    /\ last.op = "clef"
    /\ SetNotation(input)

NextScore == CallNotation

SpecScore == InitScore /\ [][NextScore]_vars


(***************************************************************************)
(* One call of the note_value or note_name setter on a new converter       *)
(***************************************************************************)
\* how far around the two limits the numbers offered to note_value reach,
\* in hundredths of a half tone
Margin == 10

BoundaryNumbers ==
    ((100 * NoteLow - Margin)..(100 * NoteLow + Margin))
      \cup ((100 * NoteHigh - Margin)..(100 * NoteHigh + Margin))

\* a spelling of a full note: letter, accidental ("" for none), octave digit
Spellings == [letter : {"C", "D", "E", "F", "G", "A", "B"}, acc : {"", "#", "b"}, digit : Digits]

SpellText(sp) == FullNoteText(sp.letter, sp.acc, sp.digit)

\* the half tone a spelling denotes: letter + accidental + (octave - 4) * 12
SpellValue(sp) ==
    (CASE sp.letter = "C" -> -9 [] sp.letter = "D" -> -7 [] sp.letter = "E" -> -5
       [] sp.letter = "F" -> -4 [] sp.letter = "G" -> -2 [] sp.letter = "A" -> 0
       [] sp.letter = "B" -> 2)
    + (IF sp.acc = "#" THEN 1 ELSE IF sp.acc = "b" THEN -1 ELSE 0)
    + (DigitVal(sp.digit) - 4) * 12

\* two spellings of the same half tone, and two spellings of neighbouring
\* half tones of octave 4
EnharmonicPairs == {pr \in Spellings \X Spellings : SpellValue(pr[1]) = SpellValue(pr[2])}

MismatchedPairs ==
    {pr \in Spellings \X Spellings :
        /\ pr[1].digit = "4" /\ pr[2].digit = "4"
        /\ SpellValue(pr[1]) # SpellValue(pr[2])}

SpellPairText(pr) == PairText(SpellText(pr[1]), SpellText(pr[2]))

NoteCallInputs ==
    {Num(v) : v \in BoundaryNumbers}
      \cup {Str(SpellText(sp)) : sp \in Spellings}
      \cup {Str(SpellPairText(pr)) : pr \in EnharmonicPairs \cup MismatchedPairs}

InitNoteCall ==
    /\ New(Default)
    /\ input \in NoteCallInputs

CallNoteValue ==
    /\ last.op = "__init__"
    /\ SetNoteValue(input)

CallNoteName ==
    /\ last.op = "__init__"
    /\ SetNoteName(input)

NextNoteCall == CallNoteValue \/ CallNoteName

SpecNoteCall == InitNoteCall /\ [][NextNoteCall]_vars

(***************************************************************************)
(* One call of the base_freq setter, from every whole note value           *)
(***************************************************************************)
TextA4Is440Hz == <<"A", "4", "=", "4", "4", "0", "H", "z">>

Text432Hz == <<"4", "3", "2", "H", "z">>

BaseFreqCallInputs ==
    {Num(f) : f \in {1599, 1600, 22000, 43200, 44000, 88000, 2000000, 2000001}}
      \cup {Str(TextA4Is432Hz), Str(TextA4Is440Hz), Str(Text432Hz), Str(TextA5Is10Hz)}

InitBaseFreqCall ==
    /\ note_value \in {100 * v : v \in NoteLow..NoteHigh}
    /\ base_freq = Default.self.base_freq
    /\ amplitude = Default.self.amplitude
    /\ key = Default.self.key
    /\ clef = Default.self.clef
    /\ last = [op |-> "note_value", exc |-> "none", msg |-> ""]
    /\ input \in BaseFreqCallInputs

CallBaseFreq ==
    /\ last.op = "note_value"
    /\ SetBaseFreq(input)

NextBaseFreqCall == CallBaseFreq

SpecBaseFreqCall == InitBaseFreqCall /\ [][NextBaseFreqCall]_vars



(***************************************************************************)
(* One call of the notation setter with a text, from every key and clef    *)
(***************************************************************************)
\* head positions written into the texts: -TextHead .. TextHead
TextHead == 12

DigitChar(d) == CHOOSE c \in Digits : DigitVal(c) = d

\* str() of a natural number
RECURSIVE NatText(_)
NatText(n) == IF n < 10 THEN <<DigitChar(n)>> ELSE NatText(n \div 10) \o <<DigitChar(n % 10)>>

\* str() of an integer
IntText(n) == IF n < 0 THEN <<"-">> \o NatText(-n) ELSE NatText(n)

\* the characters of an accidental
AccText(a) == IF a = "##" THEN <<"#", "#">> ELSE IF a = "bb" THEN <<"b", "b">> ELSE <<a>>

\* "sc P:A" and "sc P"
ScoreText(p, a) == <<"s", "c", " ">> \o IntText(p) \o <<":">> \o AccText(a)

ScoreText1(p) == <<"s", "c", " ">> \o IntText(p)

TextHeads == (-TextHead)..TextHead

ScoreTextInputs ==
    {Str(ScoreText(p, a)) : p \in TextHeads, a \in signs}
      \cup {Str(ScoreText1(p)) : p \in TextHeads}

InitScoreText ==
    /\ note_value = Default.self.note_value
    /\ base_freq = Default.self.base_freq
    /\ amplitude = Default.self.amplitude
    /\ key \in KeyNames
    /\ clef \in ClefNames
    /\ last = [op |-> "clef", exc |-> "none", msg |-> ""]
    /\ input \in ScoreTextInputs

CallNotationText ==
    /\ last.op = "clef"
    /\ input.type = "str"
    /\ SetNotation(input)

NextScoreText == CallNotationText

SpecScoreText == InitScoreText /\ [][NextScoreText]_vars



(***************************************************************************)
(* One call of set() with a text, from every key and clef                  *)
(***************************************************************************)
SetCallInputs ==
    {Str(KeyText[k]) : k \in KeyNames}
      \cup {Str(ClefText[c]) : c \in ClefNames}
      \cup {Str(NoteA4Plus30), Str(Text440Hz), Str(TextA4Is432Hz), Str(Text150Percent),
            Str(TextMinus10dB), Str(TextSc5Sharp)}

InitSetCall ==
    /\ note_value = Default.self.note_value
    /\ base_freq = Default.self.base_freq
    /\ amplitude = Default.self.amplitude
    /\ key \in KeyNames
    /\ clef \in ClefNames
    /\ last = [op |-> "clef", exc |-> "none", msg |-> ""]
    /\ input \in SetCallInputs

CallSet ==
    /\ last.op = "clef"
    /\ Set(input)

NextSetCall == CallSet

SpecSetCall == InitSetCall /\ [][NextSetCall]_vars



(***************************************************************************)
(* The other getters (converter.py 281-287, 316-342, 358-393, 553-559)     *)
(* A getter that can raise returns [exc, val]                              *)
(***************************************************************************)
Returned(v) == [exc |-> "none", val |-> v]

Threw(e) == [exc |-> e, val |-> 0]

\* 20 * log10(a / 1000) in tenths of a dB for an amplitude a >= 1 in
\* thousandths: the decade, the 2 dB step in it, and the rest by interpolation
GainOfAmp(a) ==
    LET d == CHOOSE n \in 0..5 : Pow(10, n) <= a /\ a < Pow(10, n + 1)
        m == (a * 1000) \div Pow(10, d)
        k == CHOOSE n \in 0..9 : DecadeGrid[n + 1] <= m /\ m < DecadeGrid[n + 2]
    IN  200 * d + 20 * k
          + (20 * (m - DecadeGrid[k + 1])) \div (DecadeGrid[k + 2] - DecadeGrid[k + 1])
          - 600

\* 20. * log10(self.__amplitude__): log10 raises ValueError at 0
gain_get(s) ==
    IF s.amplitude <= 0 THEN Threw("ValueError") ELSE Returned(GainOfAmp(s.amplitude))

\* self.__names__
Names == <<"C", " ", "D", " ", "E", "F", " ", "G", " ", "A", " ", "B">>

\* a 12-character string indexed as Python does: -12 .. 11, else IndexError
InStr12(i) == -12 <= i /\ i <= 11

Str12At(str, i) == str[(i % 12) + 1]

\* the index and the amendment the key_name getter arrives at
key_name_step(used_ivories, i) ==
    IF Str12At(used_ivories, i) = "b" THEN <<i + 1, "b">>
    ELSE IF Str12At(used_ivories, i) = "#" THEN <<i - 1, "#">>
    ELSE IF Str12At(Names, i) = " "
         THEN (IF \E n \in 1..12 : used_ivories[n] = "b" THEN <<i + 1, "b">> ELSE <<i - 1, "#">>)
    ELSE <<i, "">>

\* the name: letter, amendment, octave
key_name_text(st, octave) == <<Names[(st[1] % 12) + 1], st[2], octave>>

key_name_get(s) ==
    IF InStr12(Round(s.note_value) + 9)
    THEN Returned(key_name_text(key_name_step(keys[s.key][2], Round(s.note_value) + 9),
                                octave_get(s)))
    ELSE Threw("IndexError")

\* the entries of note_names: f'{X}#{octave}/{Y}b{octave}' and f'{X}{octave}'
NamePair(x, y, o) == <<x, "#">> \o o \o <<"/", y, "b">> \o o

NameOne(x, o) == <<x>> \o o

note_names(r, o) ==
    CASE r = -9 -> NameOne("C", o) [] r = -8 -> NamePair("C", "D", o)
      [] r = -7 -> NameOne("D", o) [] r = -6 -> NamePair("D", "E", o)
      [] r = -5 -> NameOne("E", o) [] r = -4 -> NameOne("F", o)
      [] r = -3 -> NamePair("F", "G", o) [] r = -2 -> NameOne("G", o)
      [] r = -1 -> NamePair("G", "A", o) [] r = 0 -> NameOne("A", o)
      [] r = 1 -> NamePair("A", "B", o) [] r = 2 -> NameOne("B", o)

\* cents_str joined to the name with ' ', and stripped
note_name_join(name, cents) ==
    IF cents = 0 THEN name
    ELSE IF cents < 0 THEN name \o <<" ">> \o IntText(cents)
    ELSE name \o <<" ", "+">> \o IntText(cents)

\* the note_name getter: the text of the name
note_name_get(s) ==
    note_name_join(note_names(Round(s.note_value) - (octave_get(s) - 4) * 12,
                              IntText(octave_get(s))),
                   s.note_value - 100 * Round(s.note_value))

key_get(s) == s.key

clef_get(s) == s.clef

(***************************************************************************)
(* The getters read from every key, clef, whole note value of the range    *)
(* and some amplitudes of the range                                        *)
(***************************************************************************)
\* amplitudes in thousandths
SomeAmplitudes == {0, 500, 1000}

InitGetters ==
    /\ note_value \in {100 * v : v \in NoteLow..NoteHigh}
    /\ base_freq = Default.self.base_freq
    /\ amplitude \in SomeAmplitudes
    /\ key \in KeyNames
    /\ clef \in ClefNames
    /\ last = [op |-> "clef", exc |-> "none", msg |-> ""]
    /\ input = None

\* a getter ran and ended as exc; the value v it returned is looked at
Read(op, exc, v) ==
    /\ exc # "none" \/ v = v
    /\ last' = [op |-> op, exc |-> exc, msg |-> ""]
    /\ UNCHANGED <<note_value, base_freq, amplitude, key, clef, input>>

\* a getter that can raise
ReadOrRaise(op, r) == Read(op, r.exc, r.val)

GetNoteValue == Read("note_value.get", "none", note_value_get(Self))

GetFrequency == Read("frequency.get", "none", frequency_get(Self))

GetBaseFreq == Read("base_freq.get", "none", base_freq_get(Self))

GetAmplitude == Read("amplitude.get", "none", amplitude_get(Self))

GetGain == ReadOrRaise("gain.get", gain_get(Self))

GetOctave == Read("octave.get", "none", octave_get(Self))

GetNoteName == Read("note_name.get", "none", note_name_get(Self))

GetKey == Read("key.get", "none", key_get(Self))

GetKeyName == ReadOrRaise("key_name.get", key_name_get(Self))

GetClef == Read("clef.get", "none", clef_get(Self))

GetNotation == Read("notation.get", "none", notation_get(Self))

NextGetters ==
    \/ GetNoteValue \/ GetFrequency \/ GetBaseFreq \/ GetAmplitude \/ GetGain \/ GetOctave
    \/ GetNoteName \/ GetKey \/ GetKeyName \/ GetClef \/ GetNotation

SpecGetters == InitGetters /\ [][NextGetters]_vars



(***************************************************************************)
(* Reading the note name and assigning it back:                            *)
(*     x.note_name = x.note_name   and   x.note_value = x.note_name        *)
(* from every note value of the range that is a whole half tone or one of  *)
(* some cent offsets away from it                                          *)
(***************************************************************************)
CentOffsets == {-50, -30, -1, 0, 1, 30, 50}

NameValues ==
    {h \in {100 * v + c : v \in NoteLow..NoteHigh, c \in CentOffsets} :
        100 * NoteLow <= h /\ h <= 100 * NoteHigh}

InitNameRoundTrip ==
    /\ note_value \in NameValues
    /\ base_freq = Default.self.base_freq
    /\ amplitude = Default.self.amplitude
    /\ key = Default.self.key
    /\ clef = Default.self.clef
    /\ last = [op |-> "clef", exc |-> "none", msg |-> ""]
    /\ input = None

NameReadBack ==
    /\ last.op = "clef"
    /\ SetNoteName(Str(note_name_get(Self)))

ValueFromName ==
    /\ last.op = "clef"
    /\ SetNoteValue(Str(note_name_get(Self)))

NextNameRoundTrip == NameReadBack \/ ValueFromName

SpecNameRoundTrip == InitNameRoundTrip /\ [][NextNameRoundTrip]_vars



(***************************************************************************)
(* One call of the note_name setter with a full note and a cent suffix     *)
(***************************************************************************)
\* suffixes after the full note: the text, whether the cents carry a sign,
\* and the cents
CentSuffixes ==
    {[text |-> <<>>,                    signed |-> TRUE,  cents |-> 0],
     [text |-> <<" ", "+", "3", "0">>,  signed |-> TRUE,  cents |-> 30],
     [text |-> <<"+", "3", "0">>,       signed |-> TRUE,  cents |-> 30],
     [text |-> <<" ", "-", "5", "0">>,  signed |-> TRUE,  cents |-> -50],
     [text |-> <<"-", "7">>,            signed |-> TRUE,  cents |-> -7],
     [text |-> <<" ", "3", "0">>,       signed |-> FALSE, cents |-> 30],
     [text |-> <<"3", "0">>,            signed |-> FALSE, cents |-> 30],
     [text |-> <<" ", "7">>,            signed |-> FALSE, cents |-> 7]}

NoteTextInputs ==
    {Str(FullNoteText(l, a, d) \o sfx.text) :
        l \in NoteLetters, a \in {"", "#", "b"}, d \in Digits, sfx \in CentSuffixes}

InitNoteText ==
    /\ New(Default)
    /\ input \in NoteTextInputs

CallNoteText ==
    /\ last.op = "__init__"
    /\ input.type = "str"
    /\ SetNoteName(input)

NextNoteText == CallNoteText

SpecNoteText == InitNoteText /\ [][NextNoteText]_vars



(***************************************************************************)
(* The setters of note value, amplitude, key and clef, and the getters, in *)
(* any order on a new converter                                            *)
(***************************************************************************)
FrameNoteInputs == {Num(300), Str(NoteDis4E4), None}

FrameNoteNameInputs == {Str(NoteA4Plus30), Num(0)}

FrameFrequencyInputs == {Num(88000), Str(Text440Hz), Num(1599)}

FrameAmplitudeInputs == {Num(0), Num(1000), Str(Text150Percent)}

FrameGainInputs == {Num(-60), Str(TextPlus35dB), None}

FrameKeyInputs == {Str(KeyText["D/b"]), Str(KeyText["Cb/ab"]), Str(TextHx)}

FrameClefInputs == {Str(ClefText["bass"]), Str(ClefText["alto"]), Str(TextTenor)}

FrameNotationInputs == {Tuple(-7, "#"), Tuple(3, "_"), PyInt(-6), Tuple(5, "x")}

NextFrame ==
    \/ \E x \in FrameNoteInputs      : SetNoteValue(x)
    \/ \E x \in FrameNoteNameInputs  : SetNoteName(x)
    \/ \E x \in FrameFrequencyInputs : SetFrequency(x)
    \/ \E x \in FrameAmplitudeInputs : SetAmplitude(x)
    \/ \E x \in FrameGainInputs      : SetGain(x)
    \/ \E x \in FrameKeyInputs       : SetKey(x)
    \/ \E x \in FrameClefInputs      : SetClef(x)
    \/ \E x \in FrameNotationInputs  : SetNotation(x)
    \/ NextGetters

SpecFrame == Init /\ [][NextFrame]_vars



(***************************************************************************)
(* Construction with arguments, then the getters                           *)
(***************************************************************************)
\* base frequencies in hundredths of a Hertz, amplitudes in thousandths
ConstructorArgs ==
    [type : {"args"},
     base_freq : {1600, 22000, 43200, 44000, 88000, 2000000},
     amplitude : {0, 500, 1000},
     new_scale : KeyNames,
     clef : ClefNames]

\* MusicConverter(base_freq=F, amplitude=A, new_scale=K, clef=C)
InitConstruct ==
    /\ input \in ConstructorArgs
    /\ New(Construct(Num(input.base_freq), Num(input.amplitude),
                     Str(KeyText[input.new_scale]), Str(ClefText[input.clef])))

NextConstruct == NextGetters

SpecConstruct == InitConstruct /\ [][NextConstruct]_vars



(***************************************************************************)
(* One call of the notation setter with a tuple, from every key and clef,  *)
(* and the notation getter after an accepted call                          *)
(***************************************************************************)
ReadNotationAfter ==
    /\ last.op = "notation"
    /\ last.exc = "none"
    /\ GetNotation

NextScoreRead == CallNotation \/ ReadNotationAfter

SpecScoreRead == InitScore /\ [][NextScoreRead]_vars


(***************************************************************************)
(* Claims                                                                  *)
(***************************************************************************)

\* C1 (SpecRoundTrip): for every key, clef and whole note value in [-58, 66],
\* every entry of the notation getter, assigned back through the notation
\* setter, is accepted and leaves note_value as it was.
C1_ReadBackKeepsNoteValue ==
    [][last'.op = "notation" => last'.exc = "none" /\ note_value' = note_value]_vars

\* C2 (Spec): in every state reachable by setter calls the stored note value
\* lies in [-58, 66].
C2_NoteValueInRange == 100 * NoteLow <= note_value /\ note_value <= 100 * NoteHigh

\* C3 (Spec): in every state reachable by setter calls the stored amplitude
\* lies in [0, 1].
C3_AmplitudeInRange == 0 <= amplitude /\ amplitude <= 1000

\* the frequency an input of the base_freq setter stands for
GivenBaseFreq(x) == IF x.type = "num" THEN x.val ELSE base_or_hertz_parser(x.text).val

\* C4 (SpecBaseFreqCall): after the base_freq setter accepted X, the base_freq
\* getter returns X, and the frequency getter returns X at note value 0.
C4_BaseFreqReadsBack ==
    (last.op = "base_freq" /\ last.exc = "none")
       => /\ base_freq_get(Self) = GivenBaseFreq(input)
          /\ frequency_get([Self EXCEPT !.note_value = 0]) = GivenBaseFreq(input)

\* C5 (SpecBaseFreqCall): a successful call of the base_freq setter leaves
\* the stored note value unchanged.
C5_BaseFreqKeepsNoteValue ==
    [][(last'.op = "base_freq" /\ last'.exc = "none") => note_value' = note_value]_vars

\* C6 (Spec): a setter call that ends in an error leaves note value, base
\* frequency, amplitude, key and clef as they were before the call.
C6_RejectedCallKeepsState ==
    [][last'.exc # "none" => fields' = fields]_vars

\* a call was rejected on a converter that no longer is in its initial state
C6_Witness ==
    /\ last.op = "notation" /\ last.exc = "MusicConverterError" /\ last.msg = "range"
    /\ note_value # 0 /\ amplitude # 500 /\ key # "C/a" /\ clef # "violin"

\* C7 (SpecNoteCall): the numeric note_value setter stores v exactly when
\* -58 <= v <= 66 and rejects every other number with MusicConverterError.
C7_NumberAcceptedIffInRange ==
    (last.op = "note_value" /\ input.type = "num")
       => IF 100 * NoteLow <= input.val /\ input.val <= 100 * NoteHigh
          THEN last.exc = "none" /\ note_value = input.val
          ELSE last.exc = "MusicConverterError" /\ last.msg = "range"

\* the upper limit itself was stored
C7_Witness ==
    last.op = "note_value" /\ input = Num(100 * NoteHigh) /\ note_value = 100 * NoteHigh

\* the compatibility table of requested and implied accidentals
C8_Table ==
    {<<"_", "_", 0>>, <<"_", "#", 0>>, <<"_", "b", 0>>,
     <<"n", "#", -1>>, <<"n", "b", 1>>,
     <<"#", "_", 1>>, <<"b", "_", -1>>,
     <<"##", "#", 1>>, <<"bb", "b", -1>>}

\* the key-adjusted half tone of the staff letter at head position p
C8_LetterValue(k, c, p) ==
    LET pos  == p - clefs[c]
        impl == KeyAccidentals(k)[(pos % 7) + 1]
    IN  BaseValues[(pos % 7) + 1]
          + (IF impl = "#" THEN 1 ELSE IF impl = "b" THEN -1 ELSE 0)
          + 12 * (pos \div 7)

\* C8 (SpecScore): the notation setter accepts a requested accidental on the
\* implied accidental of the staff letter exactly for the combinations of the
\* table, the note value becomes the letter's key-adjusted value plus the
\* offset of the table (if that lies in [-58, 66]), and every other
\* combination is rejected with MusicConverterError.
C8_AccidentalTable ==
    last.op = "notation"
       => LET impl == KeyAccidentals(key)[((input.val - clefs[clef]) % 7) + 1]
              rows == {r \in C8_Table : r[1] = input.acc /\ r[2] = impl}
              v    == C8_LetterValue(key, clef, input.val) + (CHOOSE r \in rows : TRUE)[3]
          IN  IF rows = {}
              THEN last.exc = "MusicConverterError" /\ last.msg = "combination"
                   /\ note_value = 0
              ELSE IF NoteLow <= v /\ v <= NoteHigh
              THEN last.exc = "none" /\ note_value = 100 * v
              ELSE last.exc = "MusicConverterError" /\ last.msg = "range"
                   /\ note_value = 0

\* a double sharp was accepted on a letter the key sharpens
C8_Witness ==
    last.op = "notation" /\ last.exc = "none" /\ input.acc = "##" /\ note_value # 0


\* the texts left and right of the '/' of a pair text
IsPairText(x) == x.type = "str" /\ \E i \in 1..Len(x.text) : x.text[i] = "/"

SlashAt(t) == CHOOSE i \in 1..Len(t) : t[i] = "/"

LeftOfSlash(t) == SubSeq(t, 1, SlashAt(t) - 1)

RightOfSlash(t) == SubSeq(t, SlashAt(t) + 1, Len(t))

\* C9 (SpecNoteCall): for two spellings X and Y of the same half tone (each
\* parses alone, to the same value) the text "X/Y" is accepted and gives the
\* note value that X alone and Y alone parse to.
C9_EnharmonicPairAgrees ==
    (/\ last.op \in {"note_value", "note_name"}
     /\ IsPairText(input)
     /\ note_parser(LeftOfSlash(input.text)).status = "ok"
     /\ note_parser(LeftOfSlash(input.text)) = note_parser(RightOfSlash(input.text)))
       => /\ last.exc = "none"
          /\ note_parser(LeftOfSlash(input.text)).val = note_value
          /\ note_parser(RightOfSlash(input.text)).val = note_value

\* "D#4/Eb4" was assigned to note_name and gave -6, as "D#4" and "Eb4" do
C9_Witness ==
    /\ last.op = "note_name"
    /\ input = Str(PairText(FullNoteText("D", "#", "4"), FullNoteText("E", "b", "4")))
    /\ note_value = -600
    /\ note_parser(FullNoteText("D", "#", "4")).val = -600
    /\ note_parser(FullNoteText("E", "b", "4")).val = -600

\* C10 (SpecNoteCall): assigning a pair "X/Y" of two full notes of different
\* half tones to note_value or note_name fails with MusicConverterError and
\* leaves the note value as it was.
C10_MismatchIsConverterError ==
    (/\ last.op \in {"note_value", "note_name"}
     /\ IsPairText(input)
     /\ note_parser(LeftOfSlash(input.text)).status = "ok"
     /\ note_parser(RightOfSlash(input.text)).status = "ok"
     /\ note_parser(LeftOfSlash(input.text)) # note_parser(RightOfSlash(input.text)))
       => last.exc = "MusicConverterError" /\ note_value = 0

\* the call of the notation setter with x ends as r, the result of another call
C11_SameOutcome(r) ==
    /\ last'.exc = r.exc
    /\ last'.msg = r.msg
    /\ note_value' = r.self.note_value

\* C11 (SpecScoreText): assigning the text "sc P:A" to notation ends as
\* assigning the tuple (P, A) does (same note value or same rejection), and
\* assigning "sc P" ends as assigning (P, "_") and as assigning the integer P.
C11_TextLikeTuple ==
    [][\A p \in TextHeads :
          /\ \A a \in signs :
                (last'.op = "notation" /\ input = Str(ScoreText(p, a)))
                   => C11_SameOutcome(notation_set(Self, Tuple(p, a)))
          /\ (last'.op = "notation" /\ input = Str(ScoreText1(p)))
                => /\ C11_SameOutcome(notation_set(Self, Tuple(p, "_")))
                   /\ C11_SameOutcome(notation_set(Self, PyInt(p)))]_vars

\* names that are in neither table
OtherNames ==
    {TextHx, TextTenor, <<>>, <<"c", "/", "a">>, <<"C", "/", "a", " ">>, <<"C">>,
     <<"V", "i", "o", "l", "i", "n">>, <<"v", "i", "o", "l", "i", "n", " ">>}

UnknownKeyTexts == OtherNames \cup {ClefText[c] : c \in ClefNames}

UnknownClefTexts == OtherNames \cup {KeyText[k] : k \in KeyNames}

\* C12 (Spec): in every reachable state the key is one of the 15 table keys
\* and the clef one of violin, alto, bass, and assigning a name that is not in
\* the respective table raises MusicConverterError and leaves the converter
\* (key and clef included) as it was.
C12_KeyAndClefFromTables ==
    /\ key \in KeyNames
    /\ clef \in ClefNames
    /\ Cardinality(KeyNames) = 15
    /\ \A t \in UnknownKeyTexts :
          key_set(Self, Str(t)) = Raise("MusicConverterError", "key", Self)
    /\ \A t \in UnknownClefTexts :
          clef_set(Self, Str(t)) = Raise("MusicConverterError", "clef", Self)

\* an unknown key name was rejected after key and clef had been changed
C12_Witness ==
    /\ last.op = "key" /\ last.exc = "MusicConverterError" /\ last.msg = "key"
    /\ key = "D/b" /\ clef = "bass"

\* C13 (SpecSetCall): set(text) with the name of one of the 15 keys is
\* accepted and sets the key to that name, and with the name of a clef is
\* accepted and sets the clef to that name.
C13_SetTakesKeyAndClef ==
    last.op = "set"
       => /\ \A k \in KeyNames :
                input = Str(KeyText[k]) => last.exc = "none" /\ key = k
          /\ \A c \in ClefNames :
                input = Str(ClefText[c]) => last.exc = "none" /\ clef = c

\* C14 (Spec): a converter constructed with no arguments starts with note
\* value 0, base frequency 440, amplitude 0.5, key "C/a" and clef "violin".
C14_DefaultState ==
    last.op = "__init__"
       => /\ last.exc = "none"
          /\ note_value = 0
          /\ base_freq = 44000
          /\ amplitude = 500
          /\ key = "C/a"
          /\ clef = "violin"

\* the constructor has returned and no setter was called since
C14_Witness == last.op = "__init__" /\ last.exc = "none" /\ Self = Default.self

Getters ==
    {"note_value.get", "frequency.get", "base_freq.get", "amplitude.get", "gain.get",
     "octave.get", "note_name.get", "key.get", "key_name.get", "clef.get", "notation.get"}

\* C15 (SpecGetters): for every key, clef, whole note value in [-58, 66] and
\* amplitude in [0, 1], every getter returns a value instead of raising.
C15_GettersReturn == last.op \in Getters => last.exc = "none"

\* C16 (SpecNameRoundTrip): for every note value in [-58, 66] that is a
\* whole number of cents, the text of the note_name getter is accepted by the
\* note_name setter and by the note_value setter and gives the note value
\* again.
C16_NameReadsBack ==
    [][last'.op \in {"note_name", "note_value"}
          => last'.exc = "none" /\ note_value' = note_value]_vars

\* the offset of the accidental the key k implies on the staff letter at head
\* position p under clef c
C17_OwnOffset(k, c, p) ==
    LET impl == KeyAccidentals(k)[((p - clefs[c]) % 7) + 1]
    IN  IF impl = "#" THEN 1 ELSE IF impl = "b" THEN -1 ELSE 0

\* the pitch v (in half tones) is none of the seven diatonic values of key k
C17_Between(k, v) == \A i \in 1..7 : (v - KeyValues(k)[i]) % 12 # 0

\* n is two entries on neighbouring head positions, each with the symbol for
\* its own letter's implied offset, plus 1 on the lower and minus 1 on the upper
C17_TwoEntries(n) ==
    /\ Len(n) = 2
    /\ n[2][1] = n[1][1] + 1
    /\ n[1][2] = AccSymbol(C17_OwnOffset(key, clef, n[1][1]) + 1)
    /\ n[2][2] = AccSymbol(C17_OwnOffset(key, clef, n[2][1]) - 1)

\* C17 (SpecGetters): for every key, clef and whole note value between two
\* diatonic steps of the key, the notation getter returns two entries with
\* head positions h and h + 1, the first with the symbol for the lower
\* letter's own implied offset + 1, the second with the symbol for the upper
\* letter's own implied offset - 1; also when the lower letter is the B of the
\* octave below.
C17_TwoSpellings ==
    (last.op = "notation.get" /\ C17_Between(key, note_value \div 100))
       => C17_TwoEntries(notation_get(Self))

\* the one entry for pitch v (in half tones) on the staff letter with index i
\* (C = 1 .. B = 7): the octave of the letter is where its key-adjusted value
\* KeyValues(k)[i] + 12 * (octave - 4) is v
C18_OnLetter(k, c, v, i) ==
    << <<clefs[c] + 7 * ((v - KeyValues(k)[i]) \div 12) + (i - 1), "_">> >>

C18_OneEntry(n) == Len(n) = 1 /\ n[1][2] = "_"

\* what the claim says of the result n of the getter for pitch v
C18_Expected(k, c, v, n) ==
    /\ C18_OneEntry(n) <=> \E i \in 1..7 : (v - KeyValues(k)[i]) % 12 = 0
    /\ \A i \in 1..7 : (v - KeyValues(k)[i]) % 12 = 0 => n = C18_OnLetter(k, c, v, i)

\* C18 (SpecGetters): for every key, clef and whole note value in [-58, 66]
\* the notation getter returns exactly one entry, with accidental "_", if and
\* only if the pitch equals modulo 12 one of the key's seven diatonic values;
\* its head position is then clef offset + 7 * (octave of that staff letter
\* - 4) + index of the staff letter (C = 0 .. B = 6).
C18_OnStaffIffDiatonic ==
    last.op = "notation.get" => C18_Expected(key, clef, note_value \div 100, notation_get(Self))

\* the B sharp of key C#/a# that sounds as the C of the octave above was read
C18_Witness ==
    /\ last.op = "notation.get" /\ last.exc = "none"
    /\ key = "C#/a#" /\ clef = "alto" /\ note_value = 300
    /\ notation_get(Self) = << <<6, "_">> >>

\* the parts of a text made of a full note and a suffix
C19_Acc(t) == IF t[2] \in {"#", "b"} THEN t[2] ELSE ""

C19_Digit(t) == IF C19_Acc(t) = "" THEN t[2] ELSE t[3]

C19_Rest(t) == SubSeq(t, (IF C19_Acc(t) = "" THEN 3 ELSE 4), Len(t))

\* the letter offsets of the claim, for either case
C19_LetterOffset(l) ==
    CASE l \in {"C", "c"} -> -9 [] l \in {"D", "d"} -> -7 [] l \in {"E", "e"} -> -5
      [] l \in {"F", "f"} -> -4 [] l \in {"G", "g"} -> -2 [] l \in {"A", "a"} -> 0
      [] l \in {"B", "b"} -> 2

\* letter offset + accidental offset + (d - 4) * 12, in half tones
C19_FullNoteValue(t) ==
    C19_LetterOffset(t[1])
      + (IF C19_Acc(t) = "#" THEN 1 ELSE IF C19_Acc(t) = "b" THEN -1 ELSE 0)
      + (DigitVal(C19_Digit(t)) - 4) * 12

\* C19 (SpecNoteText): a full note of letter (either case), optional
\* accidental and octave digit d parses to letter offset + accidental offset
\* + (d - 4) * 12; a cent suffix with a sign adds sign * cents / 100; a cent
\* number without a sign is a parse error.
C19_FullNoteAndCents ==
    last.op = "note_name"
       => \A sfx \in CentSuffixes :
             C19_Rest(input.text) = sfx.text
                => IF sfx.signed
                   THEN /\ last.exc = "none"
                        /\ note_value = 100 * C19_FullNoteValue(input.text) + sfx.cents
                   ELSE /\ last.exc = "MusicConverterError" /\ last.msg = "parse"
                        /\ note_value = 0

\* "eb3 -50" was assigned and gave -18.5
C19_Witness ==
    /\ last.op = "note_name" /\ last.exc = "none"
    /\ input = Str(<<"e", "b", "3", " ", "-", "5", "0">>)
    /\ note_value = -1850

\* C20 (SpecFrame): a successful key setter changes only the key, a
\* successful clef setter only the clef, successful amplitude and gain
\* setters only the amplitude, successful note_value, note_name, frequency
\* and notation setters only the note value; no getter changes any field.
C20_SetterChangesOwnField ==
    [][/\ last'.op \in Getters => fields' = fields
       /\ (last'.exc = "none" /\ last'.op = "key")
             => <<note_value, base_freq, amplitude, clef>>'
                   = <<note_value, base_freq, amplitude, clef>>
       /\ (last'.exc = "none" /\ last'.op = "clef")
             => <<note_value, base_freq, amplitude, key>>'
                   = <<note_value, base_freq, amplitude, key>>
       /\ (last'.exc = "none" /\ last'.op \in {"amplitude", "gain"})
             => <<note_value, base_freq, key, clef>>' = <<note_value, base_freq, key, clef>>
       /\ (last'.exc = "none"
             /\ last'.op \in {"note_value", "note_name", "frequency", "notation"})
             => <<base_freq, amplitude, key, clef>>' = <<base_freq, amplitude, key, clef>>]_vars

\* the frequency setter moved the note value an octave up from A4 after key,
\* clef and amplitude had been set, and these are as they were set
C20_Witness ==
    /\ last.op = "frequency" /\ last.exc = "none"
    /\ note_value = 1200 /\ base_freq = 44000
    /\ amplitude = 1000 /\ key = "Cb/ab" /\ clef = "alto"

\* C21 (SpecConstruct): after MusicConverter(base_freq=F, amplitude=A,
\* new_scale=K, clef=C) with valid arguments, base_freq reads F, amplitude
\* reads A, key reads K, clef reads C and note_value is 0.
C21_ArgumentsBecomeState ==
    input.type = "args"
       => /\ last.op = "__init__" => last.exc = "none"
          /\ base_freq_get(Self) = input.base_freq
          /\ amplitude_get(Self) = input.amplitude
          /\ key_get(Self) = input.new_scale
          /\ clef_get(Self) = input.clef
          /\ note_value_get(Self) = 0

\* C22 (SpecScoreRead): for every key, clef and head position P for which
\* assigning notation (P, "_") is accepted, the notation getter read right
\* afterwards returns exactly the one-entry list [(P, "_")].
C22_SetThenGet ==
    [][(/\ last.op = "notation" /\ last.exc = "none"
        /\ input.acc = "_"
        /\ last'.op = "notation.get")
          => /\ last'.exc = "none"
             /\ notation_get(Self) = << <<input.val, "_">> >>]_vars

\* the C of key Cb/ab, which sounds in the octave below, was set on head
\* position 6 of the bass clef and read back
C22_Witness ==
    /\ last.op = "notation.get" /\ last.exc = "none"
    /\ input = Tuple(6, "_")
    /\ key = "Cb/ab" /\ clef = "bass"
    /\ note_value = -1000
    /\ notation_get(Self) = << <<6, "_">> >>

====
